---- MODULE Spec2Model ----
(***************************************************************************)
(* Model of Scripts/generate_hex_coil_dxf.py: the polygonal spiral         *)
(* generator generate_hexagon_nfc_coil_dxf and the length / resistance     *)
(* estimator calculate_coil_resistance.                                    *)
(*                                                                         *)
(* Numbers.  The script works on floats; the model works on exact real     *)
(* arithmetic.  Every length the generator handles has the shape           *)
(*      (a / cos(180/num_sides) + b) / Unit                                *)
(* with integers a and b, so a length is the record [a |-> a, b |-> b].    *)
(* Unit = 2 * 6 makes the two divisions of the code (by 2 at line 110, by  *)
(* 6 at lines 128 and 138) exact.  A point r*cos(angle), r*sin(angle) is   *)
(* kept as the record [r |-> r, ang |-> k], the angle being k / num_sides  *)
(* degrees.  The estimator is run on paths of integer points whose         *)
(* pairwise distances are integers, so that math.sqrt is exact.            *)
(***************************************************************************)
EXTENDS Integers, Sequences, FiniteSets

VARIABLES
    pc,                 \* position in the running call
    outer_diameter_mm,  \* parameters of generate_hexagon_nfc_coil_dxf
    trace_width_mm,
    trace_thickness_mm,
    spacing_mm,
    num_turns,
    num_sides,
    style,
    delta_r,            \* locals of generate_hexagon_nfc_coil_dxf
    r_outer,
    angles_deg,
    r_current,
    points,
    turn,               \* index of the running turn (outer loop, line 123)
    side,               \* number of corners emitted in the running turn
    all_coordinates,
    resistivity_copper, \* parameters and locals of calculate_coil_resistance
    coordinates,
    area,
    total_length_mm,
    ci,                 \* index of the running list of coordinates (line 200)
    i,                  \* index of the running segment (line 202)
    resistance,
    result              \* outcome of the call

vars == <<pc, outer_diameter_mm, trace_width_mm, trace_thickness_mm, spacing_mm,
          num_turns, num_sides, style, delta_r, r_outer, angles_deg, r_current,
          points, turn, side, all_coordinates, resistivity_copper, coordinates,
          area, total_length_mm, ci, i, resistance, result>>

genVars == <<outer_diameter_mm, spacing_mm, num_turns, num_sides, style, delta_r,
             r_outer, angles_deg, r_current, points, turn, side, all_coordinates>>

calcVars == <<resistivity_copper, coordinates, area, total_length_mm, ci, i,
              resistance>>

----------------------------------------------------------------------------
(* Bounds of the model and the inputs that are tried. *)

MaxTurns == 3
MaxSides == 6
MaxPathLen == 3

OuterDiameters == {0, 20, 30}
TraceWidths == {0, 1, 2}
TraceThicknesses == {-1, 0, 1}
Spacings == {0, 1}
Styles == {0, 1}
Resistivities == {0, 17}

\* Integer points whose pairwise distances are 0, 3, 4 or 5.
PathPoints == {<<0, 0>>, <<3, 0>>, <<0, 4>>, <<3, 4>>}

RECURSIVE SeqsUpTo(_, _)
SeqsUpTo(S, n) ==
    IF n = 0 THEN {<<>>}
    ELSE LET shorter == SeqsUpTo(S, n - 1)
         IN  shorter \cup {Append(s, x) : s \in {t \in shorter : Len(t) = n - 1}, x \in S}

----------------------------------------------------------------------------
(* Exact arithmetic on lengths (a / cos(180/num_sides) + b) / Unit. *)

Unit == 2 * 6

NoLength == [a |-> 0, b |-> 0]

\* x, a plain number of millimetres
Plain(x) == [a |-> 0, b |-> Unit * x]

\* x / math.cos(math.radians(degree))
DivCos(x) == [a |-> Unit * x, b |-> 0]

Add(u, v) == [a |-> u.a + v.a, b |-> u.b + v.b]

Sub(u, v) == [a |-> u.a - v.a, b |-> u.b - v.b]

Times(k, u) == [a |-> k * u.a, b |-> k * u.b]

Half(u) == [a |-> u.a \div 2, b |-> u.b \div 2]

Sixth(u) == [a |-> u.a \div 6, b |-> u.b \div 6]

\* 1000 * math.cos(math.radians(180 / n)), rounded; only the order of two
\* lengths depends on it.
CosMilli(n) == <<-1000, 0, 500, 707, 809, 866, 901, 924, 940, 951>>[n]

\* u <= v as real numbers, for the polygon of n sides
Leq(u, v, n) == (u.a - v.a) * 1000 + (u.b - v.b) * CosMilli(n) <= 0

----------------------------------------------------------------------------
(* generate_hexagon_nfc_coil_dxf, lines 58-161 *)

\* lines 102-106: conversion to the circumscribed dimension, then the
\* allowance for the first turn in style 0
OuterBoundaryStyle1(od, tw, sp, st) ==
    IF st = 1 THEN DivCos(od + tw + sp) ELSE DivCos(od)

OuterBoundary(od, tw, sp, st) ==
    IF st = 0 THEN Add(DivCos(od), Plain(tw + sp)) ELSE DivCos(od)

\* line 109
DeltaR(tw, sp) == Add(DivCos(tw), DivCos(sp))

\* line 110
ROuter(ob, tw) == Half(Sub(ob, DivCos(tw)))

\* lines 112-115
AnglesDegDescending(n) == [s \in 1..n |-> 360 * (n - s)]

AnglesDegClosed(n) == [s \in 1..(n + 1) |-> 360 * (s - 1)]

AnglesDeg(n) == [s \in 1..n |-> 360 * (s - 1)]

\* lines 127-128: the radius a corner is emitted at
CornerRadius(r, st, d) == IF st = 0 THEN Sub(r, Sixth(d)) ELSE r

\* lines 134-135: the radius after a turn
TurnEndRadiusFraction(r, st, d) == IF st = 1 THEN Sub(r, Sixth(d)) ELSE r

TurnEndRadiusGrow(r, st, d) == IF st = 1 THEN Add(r, d) ELSE r

TurnEndRadius(r, st, d) == IF st = 1 THEN Sub(r, d) ELSE r

\* lines 137-138: the radius of the last point
TerminalRadiusAlways(r, st, d) == Sub(r, Sixth(d))

TerminalRadius(r, st, d) == IF st = 0 THEN Sub(r, Sixth(d)) ELSE r

\* lines 129-131 and 141-144: the point r*cos(angle), r*sin(angle)
Point(r, angle) == [r |-> r, ang |-> angle]

InitGenerate ==
    /\ pc = "generate"
    /\ outer_diameter_mm \in OuterDiameters
    /\ trace_width_mm \in TraceWidths
    /\ trace_thickness_mm \in TraceThicknesses
    /\ spacing_mm \in Spacings
    /\ num_turns \in 0..MaxTurns
    /\ num_sides \in 0..MaxSides
    /\ style \in Styles
    /\ delta_r = NoLength
    /\ r_outer = NoLength
    /\ angles_deg = <<>>
    /\ r_current = NoLength
    /\ points = <<>>
    /\ turn = 0
    /\ side = 0
    /\ all_coordinates = <<>>
    /\ resistivity_copper = 0
    /\ coordinates = <<>>
    /\ area = 0
    /\ total_length_mm = 0
    /\ ci = 0
    /\ i = 0
    /\ resistance = [num |-> 0, den |-> 1]
    /\ result = "running"

\* lines 87-120; 180/num_sides raises ZeroDivisionError when num_sides = 0
Setup ==
    /\ pc = "generate"
    /\ IF num_sides = 0
       THEN /\ pc' = "generate_done"
            /\ result' = "ZeroDivisionError"
            /\ UNCHANGED <<delta_r, r_outer, angles_deg, r_current>>
       ELSE /\ pc' = "turns"
            /\ delta_r' = DeltaR(trace_width_mm, spacing_mm)
            /\ r_outer' = ROuter(OuterBoundary(outer_diameter_mm, trace_width_mm,
                                               spacing_mm, style), trace_width_mm)
            /\ angles_deg' = AnglesDeg(num_sides)
            /\ r_current' = r_outer'
            /\ UNCHANGED result
    /\ points' = <<>>
    /\ turn' = 0
    /\ side' = 0
    /\ all_coordinates' = <<>>
    /\ UNCHANGED <<outer_diameter_mm, trace_width_mm, trace_thickness_mm, spacing_mm,
                   num_turns, num_sides, style>>
    /\ UNCHANGED calcVars

\* lines 125-131: one pass of the inner loop
EmitCorner ==
    /\ pc = "turns"
    /\ turn < num_turns
    /\ side < Len(angles_deg)
    /\ r_current' = CornerRadius(r_current, style, delta_r)
    /\ points' = Append(points, Point(r_current', angles_deg[side + 1]))
    /\ side' = side + 1
    /\ UNCHANGED <<pc, outer_diameter_mm, trace_width_mm, trace_thickness_mm,
                   spacing_mm, num_turns, num_sides, style, delta_r, r_outer,
                   angles_deg, turn, all_coordinates, result>>
    /\ UNCHANGED calcVars

\* lines 133-135: the end of one pass of the outer loop
EndTurn ==
    /\ pc = "turns"
    /\ turn < num_turns
    /\ side = Len(angles_deg)
    /\ r_current' = TurnEndRadius(r_current, style, delta_r)
    /\ turn' = turn + 1
    /\ side' = 0
    /\ UNCHANGED <<pc, outer_diameter_mm, trace_width_mm, trace_thickness_mm,
                   spacing_mm, num_turns, num_sides, style, delta_r, r_outer,
                   angles_deg, points, all_coordinates, result>>
    /\ UNCHANGED calcVars

\* lines 137-147: the last point, at angle 0
Terminal ==
    /\ pc = "turns"
    /\ turn = num_turns
    /\ r_current' = TerminalRadius(r_current, style, delta_r)
    /\ points' = Append(points, Point(r_current', 0))
    /\ all_coordinates' = <<points'>>
    /\ pc' = "save"
    /\ UNCHANGED <<outer_diameter_mm, trace_width_mm, trace_thickness_mm,
                   spacing_mm, num_turns, num_sides, style, delta_r, r_outer,
                   angles_deg, turn, side, result>>
    /\ UNCHANGED calcVars

\* lines 149-161: the drawing is saved, the resistance is computed and printed
\* (line 213 divides by the area and raises ZeroDivisionError when it is 0),
\* and the coordinates are returned
Return ==
    /\ pc = "save"
    /\ pc' = "generate_done"
    /\ result' = IF trace_width_mm * trace_thickness_mm = 0
                 THEN "ZeroDivisionError" ELSE "returned"
    /\ UNCHANGED <<trace_width_mm, trace_thickness_mm>>
    /\ UNCHANGED genVars
    /\ UNCHANGED calcVars

----------------------------------------------------------------------------
(* calculate_coil_resistance, lines 181-214 *)
(* trace_width_m, trace_thickness_m and total_length_m are the millimetre  *)
(* values over 1000; area is kept in square millimetres and the resistance *)
(* as the fraction num / den, which leaves the factor 1000 in num.         *)

\* math.sqrt on the sums of squares the paths give (perfect squares)
Sqrt(n) == CHOOSE r \in 0..n : r * r <= n /\ (r + 1) * (r + 1) > n

\* line 205
SegmentLength(p, q) ==
    Sqrt((q[1] - p[1]) * (q[1] - p[1]) + (q[2] - p[2]) * (q[2] - p[2]))

\* lines 202-204: the pairs of points the inner loop visits
SegmentsClosed(path) ==
    [k \in 1..Len(path) |-> <<path[k], path[(k % Len(path)) + 1]>>]

Segments(path) == [k \in 1..(Len(path) - 1) |-> <<path[k], path[k + 1]>>]

InitCalculate ==
    /\ pc = "calculate"
    /\ trace_width_mm \in TraceWidths
    /\ trace_thickness_mm \in TraceThicknesses
    /\ resistivity_copper \in Resistivities
    /\ \E path \in SeqsUpTo(PathPoints, MaxPathLen) : coordinates = <<path>>
    /\ area = 0
    /\ total_length_mm = 0
    /\ ci = 0
    /\ i = 0
    /\ resistance = [num |-> 0, den |-> 1]
    /\ result = "running"
    /\ outer_diameter_mm = 0
    /\ spacing_mm = 0
    /\ num_turns = 0
    /\ num_sides = 0
    /\ style = 0
    /\ delta_r = NoLength
    /\ r_outer = NoLength
    /\ angles_deg = <<>>
    /\ r_current = NoLength
    /\ points = <<>>
    /\ turn = 0
    /\ side = 0
    /\ all_coordinates = <<>>

\* lines 191-199
CalcStart ==
    /\ pc = "calculate"
    /\ area' = trace_width_mm * trace_thickness_mm
    /\ total_length_mm' = 0
    /\ ci' = 1
    /\ i' = 0
    /\ pc' = "segments"
    /\ UNCHANGED <<trace_width_mm, trace_thickness_mm, resistivity_copper,
                   coordinates, resistance, result>>
    /\ UNCHANGED genVars

\* lines 202-206: one pass of the inner loop
AddSegment ==
    /\ pc = "segments"
    /\ ci <= Len(coordinates)
    /\ i < Len(Segments(coordinates[ci]))
    /\ LET segment == Segments(coordinates[ci])[i + 1]
       IN  total_length_mm' = total_length_mm + SegmentLength(segment[1], segment[2])
    /\ i' = i + 1
    /\ UNCHANGED <<pc, trace_width_mm, trace_thickness_mm, resistivity_copper,
                   coordinates, area, ci, resistance, result>>
    /\ UNCHANGED genVars

\* line 200: the next list of coordinates
NextList ==
    /\ pc = "segments"
    /\ ci <= Len(coordinates)
    /\ i >= Len(Segments(coordinates[ci]))
    /\ ci' = ci + 1
    /\ i' = 0
    /\ UNCHANGED <<pc, trace_width_mm, trace_thickness_mm, resistivity_copper,
                   coordinates, area, total_length_mm, resistance, result>>
    /\ UNCHANGED genVars

\* lines 207-214; the division by a zero area raises ZeroDivisionError
CalcReturn ==
    /\ pc = "segments"
    /\ ci > Len(coordinates)
    /\ pc' = "calculate_done"
    /\ IF area = 0
       THEN /\ result' = "ZeroDivisionError"
            /\ UNCHANGED resistance
       ELSE /\ result' = "returned"
            /\ resistance' = [num |-> resistivity_copper * total_length_mm * 1000,
                              den |-> area]
    /\ UNCHANGED <<trace_width_mm, trace_thickness_mm, resistivity_copper,
                   coordinates, area, total_length_mm, ci, i>>
    /\ UNCHANGED genVars

----------------------------------------------------------------------------
Init == InitGenerate \/ InitCalculate

Next ==
    \/ Setup \/ EmitCorner \/ EndTurn \/ Terminal \/ Return
    \/ CalcStart \/ AddSegment \/ NextList \/ CalcReturn

Spec == Init /\ [][Next]_vars

----------------------------------------------------------------------------
(* Properties *)

GenerateCall == pc \in {"generate", "turns", "save", "generate_done"}

CalculateCall == pc \in {"calculate", "segments", "calculate_done"}

\* a valid specification: num_sides >= 3, num_turns >= 1, all lengths > 0
ValidSpec ==
    /\ num_sides >= 3
    /\ num_turns >= 1
    /\ outer_diameter_mm > 0
    /\ trace_width_mm > 0
    /\ trace_thickness_mm > 0
    /\ spacing_mm > 0

LastPoint == points[Len(points)]

\* C1: for a valid specification and either style, the returned path has
\* exactly num_sides * num_turns + 1 points, and it is the one list returned.
C1_PointCount ==
    (pc = "generate_done" /\ ValidSpec) =>
        /\ result = "returned"
        /\ Len(points) = num_sides * num_turns + 1
        /\ all_coordinates = <<points>>

C1_Witness ==
    /\ pc = "generate_done"
    /\ ValidSpec
    /\ num_sides = 5
    /\ num_turns = 2
    /\ Len(points) = 11

\* C2: generate fails, emits no point and returns no path whenever
\* num_sides < 3, num_turns < 1 or a length parameter is <= 0.  Any raised
\* error is taken for the failure, InvalidSpecification or not.
C2_InvalidSpecificationRejected ==
    (GenerateCall /\ ~ValidSpec) =>
        /\ points = <<>>
        /\ all_coordinates = <<>>
        /\ result # "returned"

\* C3: under style 0 the k-th emitted point (the last one included) has the
\* radius r_outer - k * delta_r / num_sides, for every num_sides >= 3.
C3_PolicyAStepIsDeltaOverSides ==
    (GenerateCall /\ ValidSpec /\ style = 0) =>
        \A k \in 1..Len(points) :
            Times(num_sides, Sub(r_outer, points[k].r)) = Times(k, delta_r)

\* C4: under style 1 every corner of turn t (counted from 0) has the radius
\* r_outer - t * delta_r, and every turn starts delta_r below the one before.
C4_PolicyBRadiusPerTurn ==
    (GenerateCall /\ style = 1) =>
        /\ \A k \in 1..Len(points) :
               k <= num_sides * num_turns =>
                   points[k].r = Sub(r_outer, Times((k - 1) \div num_sides, delta_r))
        /\ (pc = "turns" /\ side = 0) => r_current = Sub(r_outer, Times(turn, delta_r))

C4_Witness ==
    /\ pc = "generate_done"
    /\ ValidSpec
    /\ style = 1
    /\ num_sides = 4
    /\ num_turns = 3
    /\ points[9].r = points[12].r
    /\ points[8].r # points[9].r

\* C5, as stated: under style 1 the last point has the radius
\* r_outer - num_turns * delta_r - delta_r / num_sides.
C5_TerminalHasFractionalStep ==
    (pc = "generate_done" /\ ValidSpec /\ style = 1) =>
        Times(num_sides, Sub(Sub(r_outer, Times(num_turns, delta_r)), LastPoint.r))
            = delta_r

\* C5, amended: under style 1 the last point has the radius left by the last
\* turn, r_outer - num_turns * delta_r, with no further decrement.
C5_TerminalHasNoExtraStep ==
    (pc \in {"save", "generate_done"} /\ num_sides # 0 /\ style = 1) =>
        LastPoint.r = Sub(r_outer, Times(num_turns, delta_r))

C5_Witness ==
    /\ pc = "generate_done"
    /\ ValidSpec
    /\ style = 1
    /\ num_turns = 2
    /\ Len(points) = 2 * num_sides + 1
    /\ LastPoint.r # points[Len(points) - 1].r

\* C6, as stated: trace_width + spacing is added under style 1 only, before
\* the division by cos(half_angle).
C6_CompensationUnderPolicyB ==
    (pc = "turns" /\ ValidSpec) =>
        Times(2, r_outer) =
            IF style = 1
            THEN [a |-> Unit * (outer_diameter_mm + trace_width_mm + spacing_mm
                                - trace_width_mm), b |-> 0]
            ELSE [a |-> Unit * (outer_diameter_mm - trace_width_mm), b |-> 0]

\* C6, amended: trace_width + spacing is added under style 0 only, after the
\* division by cos(half_angle):
\*   style 0: r_outer = (outer_diameter / cos + trace_width + spacing - trace_width / cos) / 2
\*   style 1: r_outer = (outer_diameter / cos - trace_width / cos) / 2
C6_CompensationUnderPolicyA ==
    (pc \in {"turns", "save"}) =>
        Times(2, r_outer) =
            IF style = 0
            THEN [a |-> Unit * (outer_diameter_mm - trace_width_mm),
                  b |-> Unit * (trace_width_mm + spacing_mm)]
            ELSE [a |-> Unit * (outer_diameter_mm - trace_width_mm), b |-> 0]

C6_Witness ==
    /\ pc = "turns"
    /\ ValidSpec
    /\ style = 0
    /\ r_outer.b = (Unit \div 2) * (trace_width_mm + spacing_mm)
    /\ r_outer.b > 0

\* C7: for a valid specification and either style, no point has a larger
\* radius than the point before it, nor than r_outer.
C7_RadiusNonIncreasing ==
    (GenerateCall /\ ValidSpec) =>
        \A k \in 1..Len(points) :
            /\ Leq(points[k].r, r_outer, num_sides)
            /\ k > 1 => Leq(points[k].r, points[k - 1].r, num_sides)

C7_Witness ==
    /\ pc = "generate_done"
    /\ ValidSpec
    /\ style = 1
    /\ num_turns = 3
    /\ points[1].r = points[2].r
    /\ ~Leq(points[1].r, LastPoint.r, num_sides)

\* C9: the point at index t * num_sides + j (from 0, j < num_sides) is at the
\* angle j * 360 / num_sides, in every turn and either style, and a step only
\* ever appends a point to the path.
C9_AscendingAnglesAppendOnly ==
    /\ [](GenerateCall =>
            \A k \in 1..Len(points) :
                k <= num_sides * num_turns =>
                    points[k].ang = 360 * ((k - 1) % num_sides))
    /\ [][GenerateCall =>
            \/ points' = points
            \/ /\ Len(points') = Len(points) + 1
               /\ SubSeq(points', 1, Len(points)) = points]_vars

C9_Witness ==
    /\ pc = "generate_done"
    /\ num_sides = 5
    /\ num_turns = 2
    /\ style = 0
    /\ points[4].ang = 1080
    /\ points[9].ang = 1080
    /\ points[6].ang = 0

\* C8: calculate_coil_resistance fails, returning no resistance, when the
\* path has fewer than 2 points or trace_width or trace_thickness is <= 0.
\* Any raised error is taken for the failure, InvalidSpecification or not.
C8_ShortPathOrBadTraceRejected ==
    (pc = "calculate_done" /\ (\/ Len(coordinates[1]) < 2
                               \/ trace_width_mm <= 0
                               \/ trace_thickness_mm <= 0)) =>
        result # "returned"

\* the Euclidean distance of two of the points of PathPoints
Distance(p, q) ==
    CHOOSE d \in 0..8 :
        d * d = (p[1] - q[1]) * (p[1] - q[1]) + (p[2] - q[2]) * (p[2] - q[2])

\* the length of the open polyline through path
RECURSIVE OpenLength(_)
OpenLength(path) ==
    IF Len(path) < 2 THEN 0
    ELSE OpenLength(SubSeq(path, 1, Len(path) - 1))
             + Distance(path[Len(path) - 1], path[Len(path)])

\* C10: for a path of n >= 2 points the total length is the sum of the n - 1
\* distances between consecutive points, without a closing segment; the
\* accumulated length never decreases; and the resistance is not negative for
\* positive trace width, thickness and resistivity.
C10_OpenLengthAndSign ==
    /\ []((pc = "calculate_done" /\ Len(coordinates[1]) >= 2) =>
            /\ total_length_mm = OpenLength(coordinates[1])
            /\ (trace_width_mm > 0 /\ trace_thickness_mm > 0 /\ resistivity_copper > 0) =>
                   /\ result = "returned"
                   /\ resistance.den > 0
                   /\ resistance.num >= 0)
    /\ [][CalculateCall => total_length_mm' >= total_length_mm]_vars

C10_Witness ==
    /\ pc = "calculate_done"
    /\ result = "returned"
    /\ Len(coordinates[1]) = 3
    /\ coordinates[1][1] # coordinates[1][3]
    /\ total_length_mm = 9
    /\ trace_width_mm > 0
    /\ trace_thickness_mm > 0
    /\ resistivity_copper > 0
    /\ resistance.num > 0
====
